---- MODULE Spec2Model ----
(***************************************************************************)
(* A model of the SudokuSolver class (SUDOKU SOLVER.py): the validity      *)
(* predicate is_valid, the scan find_empty_cell, the recursive search      *)
(* solve with its explicit call stack, and the entry point solve_sudoku.   *)
(***************************************************************************)
EXTENDS Integers, Sequences, FiniteSets, TLC

\* ------------------------------------------------------------------ bounds

\* How many cells of Region the caller overwrites in the base grid.
RegionLen == 5
\* The caller writes values 0..MaxVal into the cells of the region.
MaxVal == 2
\* Top-level calls made on one solver in one behaviour.
MaxCalls == 2

\* ------------------------------------------------------- program constants

\* range(9): the grid has 9 rows and 9 columns, indexed 0..8.
N == 9
\* (row // 3) * 3: a box is 3 x 3.
BoxSize == 3
\* range(1, 10): the digits tried are 1..9.
FirstNum == 1
LastNum == 9

Idx == 0 .. (N - 1)
Cells == Idx \X Idx

\* ------------------------------------------------------------------ inputs

Row(s) == [j \in Idx |-> s[j + 1]]
Grid(rows) == [i \in Idx |-> Row(rows[i + 1])]

\* A completely and validly filled grid: the base the caller's grids are cut from.
BaseGrid ==
  Grid(<< <<1, 2, 3, 4, 5, 6, 7, 8, 9>>,
          <<4, 5, 6, 7, 8, 9, 1, 2, 3>>,
          <<7, 8, 9, 1, 2, 3, 4, 5, 6>>,
          <<2, 1, 4, 3, 6, 5, 8, 9, 7>>,
          <<3, 6, 5, 8, 9, 7, 2, 1, 4>>,
          <<8, 9, 7, 2, 1, 4, 3, 6, 5>>,
          <<5, 3, 1, 6, 4, 2, 9, 7, 8>>,
          <<6, 4, 2, 9, 7, 8, 5, 3, 1>>,
          <<9, 7, 8, 5, 3, 1, 6, 4, 2>> >>)

\* main: example_puzzle_1
example_puzzle_1 ==
  Grid(<< <<5, 3, 0, 0, 7, 0, 0, 0, 0>>,
          <<6, 0, 0, 1, 9, 5, 0, 0, 0>>,
          <<0, 9, 8, 0, 0, 0, 0, 6, 0>>,
          <<8, 0, 0, 0, 6, 0, 0, 0, 3>>,
          <<4, 0, 0, 8, 0, 3, 0, 0, 1>>,
          <<7, 0, 0, 0, 2, 0, 0, 0, 6>>,
          <<0, 6, 0, 0, 0, 0, 2, 8, 0>>,
          <<0, 0, 0, 4, 1, 9, 0, 0, 5>>,
          <<0, 0, 0, 0, 8, 0, 0, 7, 9>> >>)

\* main: unsolvable_puzzle, example_puzzle_1 with a second 5 in the first column
unsolvable_puzzle == [example_puzzle_1 EXCEPT ![8][0] = 5]

\* The all-zero grid.
ZeroGrid == [i \in Idx |-> [j \in Idx |-> 0]]

\* The cells the caller overwrites, in this order.
Region == << <<0, 0>>, <<2, 3>>, <<2, 4>>, <<5, 3>>, <<5, 4>>, <<0, 1>> >>

RECURSIVE Overwrite(_, _, _)
Overwrite(b, vals, k) ==
  IF k = 0 THEN b
  ELSE Overwrite([b EXCEPT ![Region[k][1]][Region[k][2]] = vals[k]], vals, k - 1)

\* The grids a caller passes: the base grid with the region overwritten, and
\* the all-zero grid.
InputGrids ==
  { Overwrite(BaseGrid, vals, RegionLen) : vals \in [1 .. RegionLen -> 0 .. MaxVal] }
    \cup {ZeroGrid}

\* --------------------------------------------------------------- the solver

\* for j in range(9): if board[row][j] == num: return False
RowHas(board, row, num) == \E j \in Idx : board[row][j] = num

\* for i in range(9): if board[i][col] == num: return False
ColHas(board, col, num) == \E i \in Idx : board[i][col] = num

\* box_row = (row // 3) * 3
BoxStart(k) == (k \div BoxSize) * BoxSize

\* for i in range(box_row, box_row + 3): for j in range(box_col, box_col + 3)
BoxHas(board, row, col, num) ==
  \E i \in BoxStart(row) .. (BoxStart(row) + BoxSize - 1) :
    \E j \in BoxStart(col) .. (BoxStart(col) + BoxSize - 1) :
      board[i][j] = num

\* is_valid with the column loop left out.
is_valid_NoColumn(board, row, col, num) ==
  /\ ~RowHas(board, row, num)
  /\ ~BoxHas(board, row, col, num)

\* is_valid with the box loops left out.
is_valid_NoBox(board, row, col, num) ==
  /\ ~RowHas(board, row, num)
  /\ ~ColHas(board, col, num)

is_valid(board, row, col, num) ==
  /\ ~RowHas(board, row, num)
  /\ ~ColHas(board, col, num)
  /\ ~BoxHas(board, row, col, num)

\* find_empty_cell's "no empty cell" value (None).
None == <<-1, -1>>

\* for j in range(9): if board[i][j] == 0: return (i, j)
\* the inner loop on row i, from column j on (None: the row has no 0 there).
RECURSIVE ScanRow(_, _, _)
ScanRow(board, i, j) ==
  IF j = N THEN None
  ELSE IF board[i][j] = 0 THEN <<i, j>>
  ELSE ScanRow(board, i, j + 1)

\* for i in range(9): the outer loop from row i on; return None after it.
RECURSIVE ScanRows(_, _)
ScanRows(board, i) ==
  IF i = N THEN None
  ELSE LET found == ScanRow(board, i, 0)
       IN IF found # None THEN found ELSE ScanRows(board, i + 1)

\* The scan with the loops exchanged: columns outside, rows inside.
RECURSIVE ScanColumn(_, _, _)
ScanColumn(board, i, j) ==
  IF i = N THEN None
  ELSE IF board[i][j] = 0 THEN <<i, j>>
  ELSE ScanColumn(board, i + 1, j)

RECURSIVE ScanColumns(_, _)
ScanColumns(board, j) ==
  IF j = N THEN None
  ELSE LET found == ScanColumn(board, 0, j)
       IN IF found # None THEN found ELSE ScanColumns(board, j + 1)

find_empty_cell_ColumnMajor(board) == ScanColumns(board, 0)

\* "return None" inside the outer loop: only the first row is scanned.
find_empty_cell_FirstRow(board) == ScanRow(board, 0, 0)

\* "return (i, j)" in place of "return None" after the loops: the last cell
\* is returned when no cell is 0.
find_empty_cell_LastCell(board) ==
  IF ScanRows(board, 0) = None THEN <<N - 1, N - 1>> ELSE ScanRows(board, 0)

find_empty_cell(board) == ScanRows(board, 0)

VARIABLES
  board,            \* the grid the caller passed, mutated in place
  stack,            \* the activations of solve, the outermost first
  recursion_count,  \* self.recursion_count
  ret,              \* what the last activation returned: "True", "False", "none"
  puzzle,           \* the caller's puzzle, of which it passes copies
  start,            \* the grid as the current top-level call received it
  calls,            \* top-level calls made so far
  entry,            \* how the current top-level call was made
  acts,             \* activations of solve in the current top-level call
  placed,           \* digits written in the current top-level call
  count0,           \* recursion_count as the current top-level solve found it
  prev,             \* the outcome of the previous top-level call
  trail,            \* the cells written and not cleared since, oldest first
  probe             \* the last direct use of is_valid or find_empty_cell

vars == <<board, stack, recursion_count, ret, puzzle, start, calls, entry,
          acts, placed, count0, prev, trail, probe>>

ghosts == <<puzzle, probe>>

\* No call before this one; no helper used.
NoPrev == [status |-> "none", how |-> "none", from |-> ZeroGrid, grid |-> ZeroGrid,
           count0 |-> 0, count |-> 0]
NoProbe == [op |-> "none"]

\* The solver as constructed, holding no call, and the caller's puzzle g.
InitWith(g) ==
  /\ puzzle = g
  /\ board = g
  /\ start = g
  /\ stack = <<>>
  /\ recursion_count = 0
  /\ ret = "none"
  /\ calls = 0
  /\ entry = "none"
  /\ acts = 0
  /\ placed = 0
  /\ count0 = 0
  /\ prev = NoPrev
  /\ trail = <<>>
  /\ probe = NoProbe

\* __init__: self.recursion_count = 0
Init == \E g \in InputGrids : InitWith(g)

\* main: the puzzles of the menu that the search settles within the bounds.
ExampleInit == \E g \in {example_puzzle_1, unsolvable_puzzle} : InitWith(g)

Depth == Len(stack)
Top == stack[Depth]
Running == Depth > 0
Done == Depth = 0 /\ calls > 0

\* A new activation of solve(board): its locals are not set yet.
\* entered is the grid as the activation received it, puts the digits it wrote.
Frame(b) ==
  [pc |-> "start", row |-> -1, col |-> -1, num |-> 0, entered |-> b, puts |-> 0]

\* The sequence s with every occurrence of cell c taken out.
RECURSIVE Without(_, _)
Without(s, c) ==
  IF s = <<>> THEN <<>>
  ELSE IF Head(s) = c THEN Without(Tail(s), c)
  ELSE <<Head(s)>> \o Without(Tail(s), c)

SetTop(f) == [stack EXCEPT ![Depth] = f]
Pop == SubSeq(stack, 1, Depth - 1)

\* What the caller keeps of a finished top-level call.
Outcome ==
  [status |-> ret, how |-> entry, from |-> start, grid |-> board,
   count0 |-> count0, count |-> recursion_count]

\* A top-level call of solve on b, the counter being c when solve is entered.
TopCall(b, c, how) ==
  /\ ~Running
  /\ calls < MaxCalls
  /\ board' = b
  /\ start' = b
  /\ recursion_count' = c
  /\ count0' = c
  /\ stack' = <<Frame(b)>>
  /\ ret' = "none"
  /\ calls' = calls + 1
  /\ entry' = how
  /\ acts' = 1
  /\ placed' = 0
  /\ prev' = IF calls = 0 THEN NoPrev ELSE Outcome
  /\ trail' = <<>>
  /\ UNCHANGED ghosts

\* The grid a caller passes: a fresh copy of its puzzle, or the grid the last
\* call left.
Passed == {puzzle, board}

\* The reset left out.
ResetCount_Keep(c) == c

\* solve_sudoku(board): self.recursion_count = 0, then self.solve(board)
ResetCount(c) == 0

SolveSudoku ==
  \E b \in Passed : TopCall(b, ResetCount(recursion_count), "solve_sudoku")

\* solver.solve(board), called directly: the counter is left as it is.
SolveDirect ==
  \E b \in Passed : TopCall(b, recursion_count, "solve")

\* The increment left out.
Increment_Not(c) == c

\* The increment made twice in an activation.
Increment_Twice(c) == c + 2

\* self.recursion_count += 1
Increment(c) == c + 1

\* range(2, 10): the loop starts one digit late.
InitialNum_Second == FirstNum + 1

\* for num in range(1, 10): the first value of num.
InitialNum == FirstNum

\* solve, from its first line to the start of the loop.
Begin ==
  /\ Running
  /\ Top.pc = "start"
  /\ recursion_count' = Increment(recursion_count)
  /\ LET empty_cell == find_empty_cell(board) IN
       IF empty_cell = None
       THEN /\ stack' = Pop
            /\ ret' = "True"
       ELSE /\ stack' = SetTop([Top EXCEPT !.pc = "loop", !.row = empty_cell[1],
                                           !.col = empty_cell[2], !.num = InitialNum])
            /\ ret' = "none"
  /\ UNCHANGED <<board, start, calls, entry, acts, placed, count0, prev, trail>>
  /\ UNCHANGED ghosts

\* for num in range(1, 10): the next value of num.
NextNum_Skip(num) == num + 2

\* The loop variable never advances.
NextNum_Stuck(num) == num

NextNum(num) == num + 1

\* if self.is_valid(...): false, the loop goes on to the next num
Reject ==
  /\ Running
  /\ Top.pc = "loop"
  /\ Top.num <= LastNum
  /\ ~is_valid(board, Top.row, Top.col, Top.num)
  /\ stack' = SetTop([Top EXCEPT !.num = NextNum(Top.num)])
  /\ UNCHANGED <<board, recursion_count, ret, start, calls, entry, acts, placed,
                 count0, prev, trail>>
  /\ UNCHANGED ghosts

\* The placement left out.
Write_Not(b, row, col, num) == b

\* board[row][col] = num
Write(b, row, col, num) == [b EXCEPT ![row][col] = num]

\* if self.is_valid(...): board[row][col] = num; self.solve(board) is entered
Place ==
  /\ Running
  /\ Top.pc = "loop"
  /\ Top.num <= LastNum
  /\ is_valid(board, Top.row, Top.col, Top.num)
  /\ board' = Write(board, Top.row, Top.col, Top.num)
  /\ stack' = Append(SetTop([Top EXCEPT !.pc = "wait", !.puts = Top.puts + 1]),
                      Frame(board'))
  /\ acts' = acts + 1
  /\ placed' = placed + 1
  /\ trail' = Append(trail, <<Top.row, Top.col>>)
  /\ ret' = "none"
  /\ UNCHANGED <<recursion_count, start, calls, entry, count0, prev>>
  /\ UNCHANGED ghosts

\* if self.solve(board): return True
ReturnTrue ==
  /\ Running
  /\ Top.pc = "wait"
  /\ ret = "True"
  /\ stack' = Pop
  /\ UNCHANGED <<board, recursion_count, ret, start, calls, entry, acts, placed,
                 count0, prev, trail>>
  /\ UNCHANGED ghosts

\* The undo left out.
Clear_Not(b, row, col) == b

\* board[row][col] = 0
Clear(b, row, col) == [b EXCEPT ![row][col] = 0]

\* the recursion failed: board[row][col] = 0, and the loop goes on
Undo ==
  /\ Running
  /\ Top.pc = "wait"
  /\ ret = "False"
  /\ board' = Clear(board, Top.row, Top.col)
  /\ stack' = SetTop([Top EXCEPT !.pc = "loop", !.num = NextNum(Top.num)])
  /\ trail' = Without(trail, <<Top.row, Top.col>>)
  /\ ret' = "none"
  /\ UNCHANGED <<recursion_count, start, calls, entry, acts, placed, count0, prev>>
  /\ UNCHANGED ghosts

\* the loop is over: return False
Exhausted ==
  /\ Running
  /\ Top.pc = "loop"
  /\ Top.num > LastNum
  /\ stack' = Pop
  /\ ret' = "False"
  /\ UNCHANGED <<board, recursion_count, start, calls, entry, acts, placed,
                 count0, prev, trail>>
  /\ UNCHANGED ghosts

Step == Begin \/ Reject \/ Place \/ ReturnTrue \/ Undo \/ Exhausted

Next == SolveSudoku \/ SolveDirect \/ Step

Spec == Init /\ [][Next]_vars

\* solve is synchronous: once called it runs on until it returns.
FairSpec == Spec /\ WF_vars(Step)

\* main: board = [row[:] for row in puzzle]; solver.solve_sudoku(board)
MainCall == TopCall(puzzle, ResetCount(recursion_count), "solve_sudoku")

NextMain == MainCall \/ Step

\* The searches on the puzzles of main.
ExampleSpec == ExampleInit /\ [][NextMain]_vars

\* The searches on the puzzles of main, a call in progress always running on.
ExampleFairSpec == ExampleSpec /\ WF_vars(Step)

\* A caller uses is_valid on the grid it holds.
ProbeIsValid ==
  /\ calls = 0
  /\ probe = NoProbe
  /\ \E row \in Idx, col \in Idx, num \in FirstNum .. LastNum :
       probe' = [op |-> "is_valid", row |-> row, col |-> col, num |-> num,
                 res |-> is_valid(board, row, col, num)]
  /\ UNCHANGED <<board, stack, recursion_count, ret, puzzle, start, calls, entry,
                 acts, placed, count0, prev, trail>>

\* A caller uses find_empty_cell on the grid it holds.
ProbeFindEmpty ==
  /\ calls = 0
  /\ probe = NoProbe
  /\ probe' = [op |-> "find_empty_cell", res |-> find_empty_cell(board)]
  /\ UNCHANGED <<board, stack, recursion_count, ret, puzzle, start, calls, entry,
                 acts, placed, count0, prev, trail>>

NextPure == ProbeIsValid \/ ProbeFindEmpty

\* The two helpers used on their own: one use on each grid of the inputs, with
\* every cell and every digit.
PureSpec == Init /\ [][NextPure]_vars

\* ------------------------------------------------------------ properties

\* The cells of row i, of column j, and of the box that holds cell <<i, j>>.
RowCells(i) == {<<i, j>> : j \in Idx}
ColCells(j) == {<<i, j>> : i \in Idx}
BoxCells(i, j) ==
  {<<r, c>> : r \in BoxStart(i) .. (BoxStart(i) + BoxSize - 1),
              c \in BoxStart(j) .. (BoxStart(j) + BoxSize - 1)}
Units ==
  {RowCells(i) : i \in Idx} \cup {ColCells(j) : j \in Idx}
    \cup {BoxCells(BoxSize * i, BoxSize * j) : i, j \in 0 .. (BoxSize - 1)}

At(b, c) == b[c[1]][c[2]]

\* No two cells of one row, column or box hold the same non-zero value.
\* (A unit's non-empty cells are as many as the values they hold.)
WellFormed(b) ==
  \A u \in Units :
    Cardinality({c \in u : At(b, c) # 0}) = Cardinality({At(b, c) : c \in u} \ {0})

\* Every row, column and box holds each digit 1..9 exactly once.
Complete(b) ==
  \A u \in Units : \A d \in FirstNum .. LastNum :
    Cardinality({c \in u : At(b, c) = d}) = 1

\* b keeps every given of the grid g.
KeepsGivens(b, g) == \A c \in Cells : At(g, c) # 0 => At(b, c) = At(g, c)

\* The top activation has tried every digit and is about to return False.
ReturnsFalse == Running /\ Top.pc = "loop" /\ Top.num > LastNum

\* C1: from a well-formed starting grid, every grid the search reaches, the
\* grids between a placement and its undo included, has pairwise distinct
\* non-zero values in every row, column and box.
C1_ValidityInvariant == (calls > 0 /\ WellFormed(start)) => WellFormed(board)

\* A digit is under trial, deeper than an earlier trial that was undone.
C1_Witness ==
  /\ WellFormed(start)
  /\ Running
  /\ Top.pc = "start"
  /\ Depth >= 3
  /\ acts > Depth
  /\ board # start

\* C2: when solve returns True on a well-formed starting grid, the grid has no
\* cell equal to 0, every row, column and box holds 1..9 exactly once, and
\* every given of the starting grid is kept.
C2_SolvedGrid ==
  (Done /\ ret = "True" /\ WellFormed(start)) =>
    /\ \A c \in Cells : At(board, c) # 0
    /\ Complete(board)
    /\ KeepsGivens(board, start)

\* A solve that filled cells, undid some of its trials, and returned True.
C2_Witness ==
  /\ Done
  /\ ret = "True"
  /\ WellFormed(start)
  /\ placed > Cardinality({c \in Cells : At(start, c) = 0})

EmptyCells(g) == {c \in Cells : At(g, c) = 0}

\* g with its empty cells filled as f says.
Fill(g, f) ==
  [i \in Idx |-> [j \in Idx |-> IF g[i][j] = 0 THEN f[<<i, j>>] ELSE g[i][j]]]

\* Some assignment of digits 1..9 to the empty cells of g satisfies the row,
\* column and box constraints (every assignment is tried).
HasSolution(g) ==
  \E f \in [EmptyCells(g) -> FirstNum .. LastNum] : WellFormed(Fill(g, f))

\* C3: on a well-formed starting grid solve returns True or False; it returns
\* False only if no assignment of digits to the empty cells satisfies the
\* constraints, and the grid it returns True on is such an assignment.
C3_ReportsSolvability ==
  (Done /\ WellFormed(start)) =>
    /\ ret \in {"True", "False"}
    /\ (ret = "True" \/ ~HasSolution(start))
    /\ (ret = "True" =>
          \E f \in {[c \in EmptyCells(start) |-> At(board, c)]} :
            /\ \A c \in EmptyCells(start) : f[c] \in FirstNum .. LastNum
            /\ board = Fill(start, f)
            /\ WellFormed(board))

\* A well-formed grid without a solution, found so after trials were undone.
C3_Witness ==
  /\ Done
  /\ ret = "False"
  /\ WellFormed(start)
  /\ placed > 0
  /\ ~HasSolution(start)

\* C4: every activation of solve that returns False, the top-level one and
\* the nested ones, leaves the grid cell for cell as it received it.
C4_FailureRestoresGrid ==
  /\ ReturnsFalse => board = Top.entered
  /\ (Done /\ ret = "False") => board = start

\* A nested activation that wrote digits returns False.
C4_Witness ==
  /\ ReturnsFalse
  /\ Depth >= 2
  /\ Top.puts >= 2
  /\ board = Top.entered

\* C5: for every starting grid the search terminates: a call of solve that
\* has begun reaches its return.
C5_Terminates == Running ~> Done

\* A search on an ill-formed grid that made placements and returned.
C5_Witness ==
  /\ Done
  /\ ~WellFormed(start)
  /\ placed >= 3
  /\ acts = placed + 1

C7_ResetEachCall == Done => recursion_count = acts

\* C7, amended: solve_sudoku resets the counter before it calls solve, and
\* solve itself does not. After a top-level call made through solve_sudoku the
\* counter equals the activations of that call alone; after a direct call of
\* solve it equals the count the previous call left plus the activations of
\* this call. Within one top-level call the counter never decreases.
C7_CounterPerCall ==
  /\ [](Done =>
          recursion_count =
            acts + (IF entry = "solve_sudoku" THEN 0 ELSE prev.count))
  /\ [][calls' = calls => recursion_count' >= recursion_count]_vars

\* A second call, made through solve_sudoku after a search of several
\* activations, has returned.
C7_Witness ==
  /\ Done
  /\ calls = 2
  /\ entry = "solve_sudoku"
  /\ prev.count >= 3
  /\ recursion_count = acts

\* C8 as stated: at most 81 activations of solve are nested at any moment.
C8_DepthAtMost81 == Depth <= N * N

\* C8, amended: the nested activations never exceed the number of empty cells
\* of the starting grid plus one (the activation that finds no empty cell),
\* which is 82 on the all-zero grid.
C8_DepthBound ==
  /\ Depth <= Cardinality(EmptyCells(start)) + 1
  /\ Depth <= N * N + 1

\* 82 activations are nested: the all-zero grid, filled.
C8_Witness ==
  /\ Depth = N * N + 1
  /\ start = ZeroGrid
  /\ Top.pc = "start"

\* The cells that share a row, a column or a box with cell <<row, col>>.
Others(row, col) ==
  (RowCells(row) \cup ColCells(col) \cup BoxCells(row, col)) \ {<<row, col>>}

\* num occurs in another cell of the row, the column or the box.
OccursElsewhere(b, row, col, num) == \E c \in Others(row, col) : At(b, c) = num

\* C9 as stated: is_valid ignores the target cell; it returns True exactly
\* when num occurs in no other cell of the row, the column and the box.
C9_IgnoresTargetCell ==
  probe.op = "is_valid" =>
    (probe.res <=> ~OccursElsewhere(board, probe.row, probe.col, probe.num))

\* C9, amended: is_valid returns True exactly when num occurs in no cell of
\* the row, the column and the box, the target cell included: on a target cell
\* that does not hold num (an empty one above all) that is when num occurs in
\* no other cell, and on a target cell that holds num it returns False.
C9_CountsTargetCell ==
  probe.op = "is_valid" =>
    (probe.res <=>
       /\ ~OccursElsewhere(board, probe.row, probe.col, probe.num)
       /\ board[probe.row][probe.col] # probe.num)

\* is_valid refuses the digit a cell holds, which occurs nowhere else.
C9_Witness ==
  /\ probe.op = "is_valid"
  /\ board[probe.row][probe.col] = probe.num
  /\ ~OccursElsewhere(board, probe.row, probe.col, probe.num)
  /\ probe.res = FALSE

\* Cell c comes before cell d in row-major order, or is d.
RowMajorLeq(c, d) == c[1] < d[1] \/ (c[1] = d[1] /\ c[2] <= d[2])

\* C10: find_empty_cell returns the first cell equal to 0 in row-major order,
\* returns None exactly when no cell is 0, and does not change the grid.
C10_FirstEmptyCell ==
  probe.op = "find_empty_cell" =>
    /\ (probe.res = None) <=> (EmptyCells(board) = {})
    /\ probe.res # None =>
         /\ probe.res \in EmptyCells(board)
         /\ \A c \in EmptyCells(board) : RowMajorLeq(probe.res, c)
    /\ board = puzzle

\* The first empty cell is found behind filled cells, before other empty ones
\* that lie in earlier columns.
C10_Witness ==
  /\ probe.op = "find_empty_cell"
  /\ probe.res # None
  /\ probe.res # <<0, 0>>
  /\ \E c \in EmptyCells(board) : c[2] < probe.res[2]
  /\ board = puzzle

\* C11: solve entered with the counter at 0 on a completely and validly filled
\* grid returns True, leaves every cell as it was, places no digit, and
\* leaves the counter at exactly 1.
C11_FullValidGridIdempotent ==
  (Done /\ count0 = 0 /\ EmptyCells(start) = {} /\ Complete(start)) =>
    /\ ret = "True"
    /\ board = start
    /\ placed = 0
    /\ recursion_count = 1

\* The grid a first search completed is handed to solve_sudoku again.
C11_Witness ==
  /\ Done
  /\ calls = 2
  /\ count0 = 0
  /\ prev.status = "True"
  /\ prev.count > 1
  /\ start = prev.grid
  /\ Complete(start)
  /\ ret = "True"
  /\ recursion_count = 1

\* The digits that conflict with no other cell of the row, column and box of
\* cell c in the grid g.
Candidates(g, c) ==
  {d \in FirstNum .. LastNum : ~OccursElsewhere(g, c[1], c[2], d)}

\* C12: on a well-formed grid with exactly one empty cell that has exactly
\* one digit without conflict, solve entered with the counter at 0 returns
\* True, writes that digit into the cell, changes no other cell, and ends
\* with the counter at 2.
C12_SingleForcedCell ==
  (/\ Done
   /\ count0 = 0
   /\ Cardinality(EmptyCells(start)) = 1
   /\ WellFormed(start)) =>
    \A c \in EmptyCells(start) : \A d \in FirstNum .. LastNum :
      Candidates(start, c) = {d} =>
        /\ ret = "True"
        /\ board = [start EXCEPT ![c[1]][c[2]] = d]
        /\ recursion_count = 2

\* The one empty cell lies behind filled cells and takes a digit above 1.
C12_Witness ==
  /\ Done
  /\ count0 = 0
  /\ WellFormed(start)
  /\ EmptyCells(start) = {<<2, 4>>}
  /\ Candidates(start, <<2, 4>>) = {2}
  /\ board = [start EXCEPT ![2][4] = 2]
  /\ recursion_count = 2

\* C13: on the puzzle of main that is the easy puzzle with its last row
\* changed to 5,0,0,0,8,0,0,7,9, the search comes to an end and returns False.
C13_UnsolvableReturnsFalse ==
  /\ []((Done /\ start = unsolvable_puzzle) => ret = "False")
  /\ ((Running /\ start = unsolvable_puzzle) ~> Done)

\* The search on that puzzle has returned False after placements and undos,
\* the puzzle differing from the easy puzzle in its last row alone.
C13_Witness ==
  /\ Done
  /\ start = unsolvable_puzzle
  /\ unsolvable_puzzle =
       [example_puzzle_1 EXCEPT ![N - 1] = Row(<<5, 0, 0, 0, 8, 0, 0, 7, 9>>)]
  /\ ~WellFormed(start)
  /\ placed > 0
  /\ ret = "False"

\* C14: on the easy puzzle of main solve returns True and leaves a grid with
\* no empty cell, each digit 1..9 once in every row, column and box, every
\* given kept, and 5,3,4,6,7,8,9,1,2 in its first row.
C14_EasyPuzzleSolved ==
  (Done /\ start = example_puzzle_1) =>
    /\ ret = "True"
    /\ EmptyCells(board) = {}
    /\ Complete(board)
    /\ KeepsGivens(board, start)
    /\ board[0] = Row(<<5, 3, 4, 6, 7, 8, 9, 1, 2>>)

\* The search on the easy puzzle has returned True after undoing placements.
C14_Witness ==
  /\ Done
  /\ start = example_puzzle_1
  /\ placed > Cardinality(EmptyCells(start))
  /\ ret = "True"
  /\ board[0] = Row(<<5, 3, 4, 6, 7, 8, 9, 1, 2>>)

\* C15: on the all-zero grid solve returns True and leaves a grid with no
\* empty cell in which every row, column and box holds each digit 1..9
\* exactly once.
C15_ZeroGridSolved ==
  (Done /\ start = ZeroGrid) =>
    /\ ret = "True"
    /\ EmptyCells(board) = {}
    /\ Complete(board)

\* The search on the all-zero grid has returned True; it placed more digits
\* than the grid has cells, so some were undone.
C15_Witness ==
  /\ Done
  /\ start = ZeroGrid
  /\ EmptyCells(start) = Cells
  /\ placed > N * N
  /\ ret = "True"
  /\ Complete(board)

\* C16: every step of a search that changes the grid changes one cell, which
\* was empty in the starting grid, and either writes a digit 1..9 into the
\* first empty cell in row-major order or resets to 0 the cell written last
\* among those not cleared since; no step changes a grid without empty cell.
C16_WritesAreStacked ==
  [][(calls' = calls /\ board' # board) =>
       /\ EmptyCells(board) # {}
       /\ \E c \in Cells :
            /\ \A e \in Cells \ {c} : At(board', e) = At(board, e)
            /\ At(start, c) = 0
            /\ \/ /\ At(board, c) = 0
                  /\ At(board', c) \in FirstNum .. LastNum
                  /\ \A e \in EmptyCells(board) : RowMajorLeq(c, e)
               \/ /\ At(board, c) # 0
                  /\ At(board', c) = 0
                  /\ trail # <<>>
                  /\ c = trail[Len(trail)]]_vars

\* A search has cleared cells and written again: more digits were placed
\* than stand on the grid, and those standing are in cells that were empty.
C16_Witness ==
  /\ Running
  /\ Len(trail) >= 2
  /\ placed > Len(trail) + 1
  /\ \A i \in 1 .. Len(trail) :
       At(board, trail[i]) # 0 /\ At(start, trail[i]) = 0
  /\ \A i \in 1 .. Len(trail) - 1 : RowMajorLeq(trail[i], trail[i + 1])

\* C17: on every starting grid without a cell equal to 0, a grid that repeats
\* a digit in a row, column or box included, solve returns True after one
\* activation (one increment of the counter), having written no cell.
C17_FullGridNotValidated ==
  (Done /\ EmptyCells(start) = {}) =>
    /\ ret = "True"
    /\ acts = 1
    /\ recursion_count = count0 + 1
    /\ placed = 0
    /\ board = start

\* solve has returned True on a full grid that repeats a digit.
C17_Witness ==
  /\ Done
  /\ EmptyCells(start) = {}
  /\ ~WellFormed(start)
  /\ ret = "True"
  /\ acts = 1
  /\ board = start

\* Cell c comes before cell d in row-major order.
RowMajorBefore(c, d) == RowMajorLeq(c, d) /\ c # d

\* The grid g with its empty cells before cell c filled as in the grid b,
\* the digit d in cell c, and its later empty cells left empty.
Prefix(g, b, c, d) ==
  [i \in Idx |-> [j \in Idx |->
    IF g[i][j] # 0 THEN g[i][j]
    ELSE IF <<i, j>> = c THEN d
    ELSE IF RowMajorBefore(<<i, j>>, c) THEN b[i][j]
    ELSE 0]]

\* C18: on a well-formed starting grid (with no more empty cells than the
\* overwritten region has) that has one or several valid completions, solve
\* returns True and leaves the completion whose values at the originally
\* empty cells, read in row-major order, are lexicographically smallest: no
\* valid completion agrees with it on the empty cells before some empty cell
\* c and holds a smaller digit in c.
C18_SmallestSolution ==
  (/\ Done
   /\ Cardinality(EmptyCells(start)) <= RegionLen
   /\ WellFormed(start)) =>
    IF ret = "True"
    THEN /\ KeepsGivens(board, start)
         /\ EmptyCells(board) = {}
         /\ WellFormed(board)
         /\ \A c \in EmptyCells(start) :
              \A d \in FirstNum .. (At(board, c) - 1) :
                \/ ~WellFormed(Prefix(start, board, c, d))
                \/ ~HasSolution(Prefix(start, board, c, d))
    ELSE ~HasSolution(start)

\* The starting grid has two valid completions, which differ in the four
\* cells of a rectangle; solve has left the one with the smaller first value.
C18_Witness ==
  /\ Done
  /\ ret = "True"
  /\ WellFormed(start)
  /\ {<<2, 3>>, <<2, 4>>, <<5, 3>>, <<5, 4>>} \subseteq EmptyCells(start)
  /\ At(board, <<2, 3>>) < At(board, <<2, 4>>)
  /\ WellFormed(board)
  /\ WellFormed([board EXCEPT ![2][3] = board[2][4], ![2][4] = board[2][3],
                              ![5][3] = board[5][4], ![5][4] = board[5][3]])
  /\ EmptyCells(board) = {}

\* C19: within a top-level solve entered with the counter at 0, the counter
\* is the number of activations that have passed their first line, every
\* placement has been followed by one new activation, and when the call has
\* returned the counter is 1 plus the number of placements made, those
\* undone included.
C19_CounterCountsPlacements ==
  (calls > 0 /\ count0 = 0) =>
    /\ acts = placed + 1
    /\ recursion_count =
         acts - (IF Running /\ Top.pc = "start" THEN 1 ELSE 0)
    /\ Done => recursion_count = 1 + placed

\* A call entered with the counter at 0 has returned after undoing
\* placements: it placed more digits than the starting grid had empty cells.
C19_Witness ==
  /\ Done
  /\ count0 = 0
  /\ placed > Cardinality(EmptyCells(start))
  /\ Cardinality(EmptyCells(start)) > 0
  /\ recursion_count = 1 + placed

====
